---- MODULE Spec2Model ----
(***************************************************************************)
(* rpki-client-web: the scheduler (repeat), the process runner             *)
(* (RpkiClient.run), the reconciliation of the diagnostics of one run with *)
(* the state kept across runs (RpkiClient.update_warning_metrics), the     *)
(* result-file task (update_validated_objects_gauge) and the orchestrator  *)
(* (RpkiClientWeb.call_client).                                            *)
(*                                                                         *)
(* Time is discrete.  One asyncio task drives the runs; the validator      *)
(* children are operating-system processes that exit on their own.  A      *)
(* diagnostic line is a record: prefix is the number of times the token    *)
(* "rpki-client: " occurs in front of the subject, tokens the number of    *)
(* times it occurs in the whole line, subject is the captured path or URI  *)
(* split at "/", message is the text after the subject.  A                 *)
(* text that can be split at a later ": " as well carries that split in    *)
(* alt_subject and alt_message (they repeat subject and message when there *)
(* is no second split).                                                    *)
(***************************************************************************)
EXTENDS Integers, Sequences, FiniteSets, TLC

\* ------------------------------------------------------------- bounds
MaxTime == 3
MaxInterval == 2
MaxLines == 3
MaxCount == 2
MaxDeadline == 1
MaxJitter == 1
MaxSerial == 2
PipeSize == 1
BufferLimit == 1

\* ------------------------------------------------------------- constants
SIGKILL == 9
MIN_TIMEOUT == -1

None == [none |-> TRUE]

\* ------------------------------------------------------------- diagnostics
LineAlt(k, subj, msg, alt_subj, alt_msg) ==
    [prefix |-> k, tokens |-> k, subject |-> subj, message |-> msg,
     alt_subject |-> alt_subj, alt_message |-> alt_msg]

Line(k, subj, msg) == LineAlt(k, subj, msg, subj, msg)

RepoA == <<"https:", "", "a.example", "notification.xml">>
RepoB == <<"https:", "", "b.example", "notification.xml">>
Repos == {RepoA, RepoB}

PathX1 == <<"hostx.example", "repo", "a.mft">>
PathX2 == <<"rrdp", "73885635", "hostx.example", "repo", "b.roa">>
PathY  == <<"rsync", "hosty.example", "repo", "c.cer">>
PathNoSlash == <<"d.mft">>
PathDotRsync == <<".rsync", "hosty.example", "repo", "e.mft">>
PathDotRrdp == <<".rrdp", "73885635", "hostx.example", "repo", "f.roa">>
\* RepoA followed by the first part of a TLS handshake message.
PathTLS == <<"https:", "", "a.example",
             "notification.xml: TLS handshake: certificate verification failed">>
\* RepoA, a message and the start of the line about RepoB written behind it.
PathJoined == <<"https:", "", "a.example",
                "notification.xml: pulling from networkrpki-client: https:",
                "", "b.example", "notification.xml">>

MSG_PULLING  == "pulling from network"
MSG_PULLED   == "loaded from network"
MSG_MISSING  == "No such file or directory"
MSG_OVERCLAIM == "RFC 3779 resource not subset of parent's resources"
MSG_SNAPSHOT == "downloading snapshot"
MSG_REVOKED  == "certificate revoked"
MSG_UNSUPPORTED == "unsupported file type for a.xyz"
MSG_NO_MFT   == "no valid mft available"
MSG_MISSING_SIA == "RFC 6487 section 4.8.8: missing SIA"
MSG_BAD_INTERVAL == "bad update interval"
MSG_EXPIRED  == "mft expired on Apr 12 10:00:00 2021 GMT"
MSG_EXPIRED_BAD == "mft expired on 2021-04-12T10:00:00Z"
MSG_NOT_YET_VALID == "mft not yet valid Apr 12 10:00:00 2021 GMT"
MSG_DIGEST   == "bad message digest for a.roa"
MSG_TLS      == "TLS handshake: certificate verification failed: certificate revoked"
MSG_NOT_MODIFIED == "notification file not modified"
MSG_NOT_ALL_FILES == "not all files processed, giving up"
MSG_DUPLICATE_SKI == "RFC 6487: duplicate SKI"
MSG_UNCOVERED_IP == "RFC 6487: uncovered IP: (inherit)"
MSG_RFC6487_OTHER == "RFC 6487: other hypothetical error: (param)"

\* "downloading <count> deltas"
MsgDeltas(count) == "downloading " \o ToString(count) \o " deltas"

\* "serial number decreased from <previous> to <current>"
MsgSerialDecreased(previous, current) ==
    "serial number decreased from " \o ToString(previous)
        \o " to " \o ToString(current)

\* The stderr texts a validator child may leave behind.
StderrEmpty == <<>>
StderrAB == << Line(1, RepoA, MSG_PULLING), Line(1, RepoB, MSG_PULLING),
               Line(1, RepoA, MSG_PULLED), Line(1, RepoA, MSG_SNAPSHOT) >>
StderrA == << Line(1, RepoA, MSG_PULLING), Line(1, RepoA, MSG_PULLED),
              Line(1, PathX1, MSG_MISSING) >>
StderrWarn == << Line(1, PathX1, MSG_MISSING), Line(1, PathX2, MSG_MISSING),
                 Line(1, PathY, MSG_OVERCLAIM),
                 Line(2, RepoB, MSG_PULLING) >>
StderrNoSlash == << Line(1, RepoB, MSG_PULLING), Line(1, PathNoSlash, MSG_MISSING) >>

Outputs == { [stdout |-> "",  stderr |-> StderrEmpty],
             [stdout |-> "",  stderr |-> StderrAB],
             [stdout |-> "o", stderr |-> StderrA],
             [stdout |-> "",  stderr |-> StderrWarn],
             [stdout |-> "",  stderr |-> StderrNoSlash] }

\* Two processes wrote without a newline in between: the line about RepoA
\* is followed at once by the one about RepoB
\* (tests/test_outputparser.py, test_intertwined_rrdp_lines_20210712).
LineJoined ==
    [LineAlt(1, RepoA, MSG_PULLING, PathJoined, MSG_PULLED) EXCEPT !.tokens = 2]

\* The rest of a line whose start went to the line before it, with the
\* starts of two other lines behind it.
LineHeadless ==
    [Line(0, RepoB, MSG_PULLED) EXCEPT !.tokens = 2]

\* The lines the streams handed to OutputParser on its own are made of.
DiagLines ==
    { Line(1, RepoA, MSG_PULLING), Line(1, RepoA, MSG_PULLED),
      Line(1, RepoA, MSG_SNAPSHOT), Line(1, RepoB, MSG_NOT_MODIFIED),
      Line(2, RepoB, MSG_PULLING), Line(2, RepoB, MSG_SNAPSHOT),
      Line(2, PathX1, MSG_MISSING), LineJoined, LineHeadless,
      Line(1, PathX1, MSG_MISSING), Line(1, PathX2, MSG_MISSING),
      Line(1, PathY, MSG_OVERCLAIM), Line(1, PathDotRsync, MSG_DIGEST),
      Line(1, PathX1, MSG_EXPIRED), Line(1, PathX1, MSG_EXPIRED_BAD),
      Line(1, PathX1, MSG_BAD_INTERVAL), Line(1, PathY, MSG_NOT_YET_VALID),
      LineAlt(1, RepoA, MSG_TLS, PathTLS, MSG_REVOKED),
      Line(1, << >>, MSG_NOT_ALL_FILES), Line(1, PathNoSlash, MSG_OVERCLAIM),
      Line(1, PathX1, MSG_DUPLICATE_SKI), Line(1, PathDotRrdp, MSG_UNCOVERED_IP),
      Line(1, PathDotRrdp, MSG_RFC6487_OTHER), Line(1, PathY, MSG_MISSING_SIA),
      Line(1, RepoA, MsgDeltas(2)), Line(1, RepoA, MsgSerialDecreased(2, 1)),
      Line(1, RepoB, MsgSerialDecreased(1, 2)) }

ExitCodes == {0, 1}
JsonStates == {"missing", "malformed", "bad_metadata", "ok"}

\* ------------------------------------------------------------- state
VARIABLES
    cfg,                  \* Configuration: interval, timeout
    now,                  \* wall clock
    pc,                   \* where the scheduler task is suspended
    t_0,                  \* repeat: start of the current iteration
    proc,                 \* run: the child of the run in progress
    abandoned,            \* children of cancelled runs that have not exited
    json_file,            \* output_dir / "json"
    pending,              \* update_validated_objects_gauge tasks not yet run
    result,               \* RpkiClientWeb.result
    finished_initial_run, \* RpkiClientWeb.finished_initial_run
    warnings,             \* RpkiClient.warnings
    last_update_repos,    \* RpkiClient.last_update_repos
    update_count,         \* RPKI_CLIENT_UPDATE_COUNT, by returncode
    last_duration,        \* RPKI_CLIENT_LAST_DURATION
    duration_count,       \* RPKI_CLIENT_DURATION: number of observations
    pulling_g,            \* RPKI_CLIENT_PULLING: uris that have a series
    pulled_g,             \* RPKI_CLIENT_PULLED: uris that have a series
    removed_unreferenced, \* RPKI_CLIENT_REMOVED_UNREFERENCED
    fetch_status_c,       \* RPKI_CLIENT_FETCH_STATUS, by <<uri, type>>
    host_warnings,        \* RPKI_CLIENT_HOST_WARNINGS, by <<type, hostname>>
    last_update,          \* RPKI_CLIENT_LAST_UPDATE
    json_error,           \* RPKI_CLIENT_JSON_ERROR
    objects_count,        \* RPKI_OBJECTS_COUNT: the metadata counts, "unset" or "set"
    stderr_in,            \* a stderr text handed to OutputParser
    parsed,               \* what OutputParser made of it
    call,                 \* a function called on its own: arguments and result
    response,             \* the answer to the last GET /objects/validated
    site,                 \* RpkiClientWeb.run: the task of site.start()
    io                    \* a child, its two pipes and the runner that reads them

vars == << cfg, now, pc, t_0, proc, abandoned, json_file, pending, result,
           finished_initial_run, warnings, last_update_repos, update_count,
           last_duration, duration_count, pulling_g, pulled_g,
           removed_unreferenced, fetch_status_c, host_warnings, last_update,
           json_error, objects_count, stderr_in, parsed, call, response, site,
           io >>

\* The state of the wrapper process.
mainVars == << cfg, now, pc, t_0, proc, abandoned, json_file, pending, result,
               finished_initial_run, warnings, last_update_repos, update_count,
               last_duration, duration_count, pulling_g, pulled_g,
               removed_unreferenced, fetch_status_c, host_warnings, last_update,
               json_error, objects_count >>

mainVarsExceptPc ==
    << cfg, now, t_0, proc, abandoned, json_file, pending, result,
       finished_initial_run, warnings, last_update_repos, update_count,
       last_duration, duration_count, pulling_g, pulled_g,
       removed_unreferenced, fetch_status_c, host_warnings, last_update,
       json_error, objects_count >>

\* The arguments and results of the functions examined on their own, and
\* the answer of the web server; the scheduler task changes none of them.
unitVars == << stderr_in, parsed, call, response, site, io >>

clientVars == << warnings, last_update_repos >>
webVars == << result, finished_initial_run >>
reconcileMetrics == << pulling_g, pulled_g, removed_unreferenced,
                       fetch_status_c, host_warnings >>
runMetrics == << update_count, last_duration >>
fileMetrics == << last_update, json_error, objects_count >>

\* ------------------------------------------------------------- OutputParser
\* INTERTWINED_LINE_RE: the line starts with the prefix token and the token
\* occurs once more in it.
INTERTWINED_LINE_RE(line) == line.prefix >= 1 /\ line.tokens >= 2

\* A parser that keeps every line.
LinesUnfiltered(stderr) == stderr

\* OutputParser.__init__: the lines that are kept.
Lines(stderr) == SelectSeq(stderr, LAMBDA l : ~INTERTWINED_LINE_RE(l))

\* re.match of "rpki-client: (?P<x>.*): <msg>" against a line: the pattern
\* is anchored at the start only, and .* may run up to any ": " of the text.
Matches(line, msg) ==
    line.prefix >= 1 /\ (line.message = msg \/ line.alt_message = msg)

\* The named group of a matching line: what lies between the first prefix
\* token and the message; the greedy .* takes the last split that matches.
Capture(line, msg) ==
    LET subj == IF line.alt_message = msg THEN line.alt_subject ELSE line.subject
    IN  IF line.prefix = 1 THEN subj
        ELSE << "rpki-client: " >> \o subj

Range(seq) == { seq[i] : i \in DOMAIN seq }

pulling(lines) ==
    { Capture(l, MSG_PULLING) : l \in { m \in Range(lines) : Matches(m, MSG_PULLING) } }

pulled(lines) ==
    { Capture(l, MSG_PULLED) : l \in { m \in Range(lines) : Matches(m, MSG_PULLED) } }

\* LabelWarning(warning_type, match.group("path")), when the rule matches.
LabelWarning(line, msg, warning_type) ==
    IF Matches(line, msg)
    THEN << [warning_type |-> warning_type, uri |-> Capture(line, msg)] >>
    ELSE << >>

\* ManifestObjectWarning: __post_init__ strips a leading ".rsync/".
ManifestObjectWarning(line, msg, warning_type) ==
    IF Matches(line, msg)
    THEN LET uri == Capture(line, msg)
         IN  << [warning_type |-> warning_type,
                 uri |-> IF Len(uri) >= 2 /\ uri[1] = ".rsync" THEN Tail(uri) ELSE uri] >>
    ELSE << >>

\* parse_maybe_warning_line: the events the generator yields for one line, in
\* the order of its rules, and the exception that ends it ("none" when it
\* runs to its end).  No rule returns after its yield.
parse_maybe_warning_line(line) ==
    LET labelled ==
               LabelWarning(line, MSG_MISSING, "missing_file")
            \o LabelWarning(line, MSG_OVERCLAIM, "overclaiming")
            \o LabelWarning(line, MSG_REVOKED, "revoked_certificate")
            \o ManifestObjectWarning(line, MSG_UNSUPPORTED, "unsupported_filetype")
            \o LabelWarning(line, MSG_NO_MFT, "no_valid_mft_available")
            \o LabelWarning(line, MSG_MISSING_SIA, "missing_sia")
        timed == labelled \o LabelWarning(line, MSG_EXPIRED, "expired_manifest")
    IN  IF Matches(line, MSG_BAD_INTERVAL)
        THEN [events |-> labelled, raises |-> "NameError"]
        ELSE IF Matches(line, MSG_EXPIRED_BAD)
        THEN [events |-> labelled, raises |-> "ValueError"]
        ELSE IF Matches(line, MSG_NOT_YET_VALID)
        THEN [events |-> timed, raises |-> "AttributeError"]
        ELSE [events |-> timed
                  \o ManifestObjectWarning(line, MSG_DIGEST, "bad_message_digest"),
              raises |-> "none"]

\* The lines of every stream of the model.
DiagnosticLines == DiagLines \cup UNION { Range(o.stderr) : o \in Outputs }

\* parse_maybe_warning_line, tabulated over the lines of the model.
WarningLine == [ l \in DiagnosticLines |-> parse_maybe_warning_line(l) ]

\* OutputParser.warnings, iterated once: the warnings it yields, the number
\* of times it counts a parse error, and whether an exception leaves it
\* (only ValueError and IndexError are caught).
RECURSIVE WarningsRun(_)
WarningsRun(lines) ==
    IF lines = << >> THEN [events |-> << >>, parse_errors |-> 0, raises |-> FALSE]
    ELSE LET one == WarningLine[Head(lines)]
         IN  IF one.raises \in {"NameError", "AttributeError"}
             THEN [events |-> one.events, parse_errors |-> 0, raises |-> TRUE]
             ELSE LET rest == WarningsRun(Tail(lines))
                  IN  [events |-> one.events \o rest.events,
                       parse_errors |-> rest.parse_errors
                           + (IF one.raises = "ValueError" THEN 1 ELSE 0),
                       raises |-> rest.raises]

parse_warnings(lines) == WarningsRun(lines).events

\* FetchStatus.__post_init__
FetchUri(uri) ==
    IF Len(uri) >= 2 /\ uri[1] = ".rsync"
    THEN << "rsync:", "" >> \o Tail(uri)
    ELSE uri

\* FetchStatus(match.group("uri"), type, count)
FetchStatus(line, msg, type) ==
    << [uri |-> FetchUri(Capture(line, msg)), type |-> type, count |-> 1] >>

\* SYNC_RSYNC_RRDP_DELTAS: the texts (?P<count>\d+) matches, with int(count).
RRDP_DELTAS ==
    { [message |-> MsgDeltas(count), count |-> count] : count \in 0..MaxSerial }

\* SYNC_RRDP_SERIAL_DECREASED: the texts the pattern matches, with
\* int(previous) and int(current).
RRDP_SERIAL_DECREASED ==
    { [message |-> MsgSerialDecreased(previous, current),
       previous |-> previous, current |-> current] :
          previous \in 0..MaxSerial, current \in 0..MaxSerial }

\* The rules of a line that carry a number: FetchStatus(uri, "rrdp_delta",
\* int(count)) and FetchStatus(uri, "rrdp_serial_decreased",
\* int(previous) - int(current)).
FetchStatusCounted(line) ==
    IF \E d \in RRDP_DELTAS : Matches(line, d.message)
    THEN LET d == CHOOSE d \in RRDP_DELTAS : Matches(line, d.message)
         IN  << [uri |-> FetchUri(Capture(line, d.message)), type |-> "rrdp_delta",
                 count |-> d.count] >>
    ELSE IF \E m \in RRDP_SERIAL_DECREASED : Matches(line, m.message)
    THEN LET m == CHOOSE m \in RRDP_SERIAL_DECREASED : Matches(line, m.message)
         IN  << [uri |-> FetchUri(Capture(line, m.message)),
                 type |-> "rrdp_serial_decreased",
                 count |-> m.previous - m.current] >>
    ELSE << >>

\* OutputParser.fetch_status for one line: the first rule that matches yields
\* and the loop continues with the next line.
fetch_status_line(line) ==
    IF Matches(line, MSG_TLS)
    THEN FetchStatus(line, MSG_TLS, "rrdp_tls_certificate_verification_failed")
    ELSE IF Matches(line, MSG_NOT_MODIFIED)
    THEN FetchStatus(line, MSG_NOT_MODIFIED, "rrdp_notification_not_modified")
    ELSE IF Matches(line, MSG_SNAPSHOT)
    THEN FetchStatus(line, MSG_SNAPSHOT, "rrdp_snapshot")
    ELSE FetchStatusCounted(line)

RECURSIVE fetch_status(_)
fetch_status(lines) ==
    IF lines = << >> THEN << >>
    ELSE fetch_status_line(Head(lines)) \o fetch_status(Tail(lines))

DropFirst(seq, n) == [ i \in 1..(Len(seq) - n) |-> seq[i + n] ]

\* parse_host raises ValueError on a path without "/".
parse_host_raises(path) == Len(path) < 2

parse_host(path) ==
    LET uri_tokens ==
            IF path[1] \in {"rrdp", ".rrdp"} THEN DropFirst(path, 2)
            ELSE IF path[1] = "rsync" THEN DropFirst(path, 1)
            ELSE path
    IN  IF uri_tokens = << >> THEN "" ELSE uri_tokens[1]

\* statistics_by_host raises when the iteration over the warnings does, or
\* when parse_host rejects the path of a warning.
statistics_by_host_raises(lines) ==
    \/ WarningsRun(lines).raises
    \/ \E w \in Range(parse_warnings(lines)) : parse_host_raises(w.uri)

\* A counter that starts a new entry for every warning.
CounterAppend(acc, t, h) ==
    Append(acc, [warning_type |-> t, hostname |-> h, count |-> 1])

\* collections.Counter: one entry per key, in order of first occurrence.
CounterAdd(acc, t, h) ==
    IF \E i \in DOMAIN acc : acc[i].warning_type = t /\ acc[i].hostname = h
    THEN [ i \in DOMAIN acc |->
             IF acc[i].warning_type = t /\ acc[i].hostname = h
             THEN [acc[i] EXCEPT !.count = @ + 1]
             ELSE acc[i] ]
    ELSE Append(acc, [warning_type |-> t, hostname |-> h, count |-> 1])

RECURSIVE CountWarnings(_, _)
CountWarnings(ws, acc) ==
    IF ws = << >> THEN acc
    ELSE CountWarnings(Tail(ws),
                       CounterAdd(acc, Head(ws).warning_type, parse_host(Head(ws).uri)))

statistics_by_host(lines) == CountWarnings(parse_warnings(lines), << >>)

LabelsOf(set) == { << w.warning_type, w.hostname >> : w \in set }

Labels(summaries) == LabelsOf(Range(summaries))

\* A comparison of whole summaries, counts included.
missing_labels_by_summary(lhs, rhs) == LabelsOf(Range(lhs) \ Range(rhs))

missing_labels(lhs, rhs) == Labels(lhs) \ Labels(rhs)


\* ------------------------------------------------------------- RpkiClient
\* Checks that leave the timeout out.
args_raises_on_files_only(files_ok, timeout) == ~files_ok

\* RpkiClient.args: the checks that raise ValueError before a child is spawned.
args_raises(files_ok, timeout) ==
    \/ ~files_ok
    \/ ~(timeout = 0 \/ timeout >= MIN_TIMEOUT)

\* str() of the integers a timeout can be.
str(n) ==
    CASE n = -2 -> "-2" [] n = -1 -> "-1" [] n = 0 -> "0"
      [] n = 1 -> "1" [] n = 2 -> "2" [] OTHER -> "3"

\* The checks of RpkiClient.args on the files of a configuration.
files_exist(c) ==
    /\ c.rpki_client_is_file
    /\ c.rsync_command \in {"none", "file"}
    /\ c.cache_dir_is_dir
    /\ c.output_dir_is_dir

\* zip(itertools.repeat("-t"), trust_anchor_locators), flattened.
RECURSIVE tal_args(_)
tal_args(tals) ==
    IF tals = << >> THEN << >>
    ELSE << "-t", Head(tals) >> \o tal_args(Tail(tals))

\* RpkiClient.args: the list that is returned when no check raises.
args(c) ==
    << "-v", "-j", "-s", str(c.timeout), "-d", "cache_dir" >>
        \o c.additional_opts
        \o (IF c.rsync_command # "none" THEN << "-e", "rsync_command" >> ELSE << >>)
        \o tal_args(c.trust_anchor_locators)
        \o << "output_dir" >>

\* RpkiClient.run: the environment handed to the child.
child_env(c, environ, t) ==
    IF c.deadline > 0
    THEN [ k \in DOMAIN environ \cup {"DEADLINE"} |->
             IF k = "DEADLINE" THEN t + c.deadline ELSE environ[k] ]
    ELSE environ

\* A run that returns nothing.
ExecutionResultNone(rc, out, err, dur) == None

\* ExecutionResult(returncode, stdout, stderr, duration)
ExecutionResult(rc, out, err, dur) ==
    [returncode |-> rc, stdout |-> out, stderr |-> err, duration |-> dur]

\* A runner that leaves a killed child out of the count.
UpdateCountSkipsKilled(c, rc) == IF rc < 0 THEN c ELSE [c EXCEPT ![rc] = @ + 1]

\* RPKI_CLIENT_UPDATE_COUNT.labels(returncode=...).inc()
UpdateCountAfter(c, rc) == [c EXCEPT ![rc] = @ + 1]

\* A reconciliation that does not look at the exit code.
UnreferencedReposAnyRun(prev, new_pulling, was_successful_run) == prev \ new_pulling

\* update_warning_metrics: the repositories whose series are removed.
UnreferencedRepos(prev, new_pulling, was_successful_run) ==
    IF was_successful_run THEN prev \ new_pulling ELSE {}

\* RPKI_CLIENT_PULLING after the removals and the updates of one run.
PullingAfter(g, unreferenced, new_pulling) == (g \ unreferenced) \cup new_pulling

\* RPKI_CLIENT_PULLED after the removals and the updates of one run; the
\* KeyError of PULLING.remove skips PULLED.remove of the same repository.
PulledAfter(g, pg, unreferenced, new_pulled) ==
    (g \ { r \in unreferenced : r \in pg }) \cup new_pulled

\* RPKI_CLIENT_FETCH_STATUS.labels(uri, type).inc(count), event by event.
RECURSIVE FetchStatusAfter(_, _)
FetchStatusAfter(c, events) ==
    IF events = << >> THEN c
    ELSE LET e == Head(events)
             k == << e.uri, e.type >>
             old == IF k \in DOMAIN c THEN c[k] ELSE 0
         IN  FetchStatusAfter(
                 [ x \in DOMAIN c \cup {k} |-> IF x = k THEN old + e.count ELSE c[x] ],
                 Tail(events))

SummaryCount(summaries, label) ==
    LET hit == { i \in DOMAIN summaries :
                   << summaries[i].warning_type, summaries[i].hostname >> = label }
    IN  IF hit = {} THEN 0 ELSE summaries[CHOOSE i \in hit : TRUE].count

\* A reconciliation that leaves the gauge of a missing label at its old value.
HostWarningsStale(g, old_warnings, new_warnings) ==
    [ l \in DOMAIN g \cup Labels(new_warnings) |->
        IF l \in Labels(new_warnings) THEN SummaryCount(new_warnings, l) ELSE g[l] ]

\* RPKI_CLIENT_HOST_WARNINGS: missing labels are set to 0, then the labels of
\* the new summaries are set to their counts.
HostWarningsAfter(g, old_warnings, new_warnings) ==
    LET missing == missing_labels(old_warnings, new_warnings)
        current == Labels(new_warnings)
    IN  [ l \in DOMAIN g \cup missing \cup current |->
            IF l \in current THEN SummaryCount(new_warnings, l)
            ELSE IF l \in missing THEN 0
            ELSE g[l] ]

\* A task that sets the timestamp whatever the exit code was.
LastUpdateAnyExitCode(value, returncode, json, t) ==
    IF json = "ok" THEN t ELSE value

\* update_validated_objects_gauge: RPKI_CLIENT_LAST_UPDATE after the task.
LastUpdateAfter(value, returncode, json, t) ==
    IF json = "ok" /\ returncode = 0 THEN t ELSE value

\* update_validated_objects_gauge: RPKI_CLIENT_JSON_ERROR after the task.
JsonErrorAfter(value, json) == IF json = "malformed" THEN value + 1 ELSE value

\* A task that clears the counts when the file does not parse.
ObjectsCountResetOnError(value, json) ==
    IF json = "ok" THEN "set" ELSE IF json = "malformed" THEN "unset" ELSE value

\* update_validated_objects_gauge: RPKI_OBJECTS_COUNT after the task.  The
\* counts are set from the metadata of a file that parses; json.load or
\* data["metadata"] raising leaves the task before any of them is set.
ObjectsCountAfter(value, json) == IF json = "ok" THEN "set" ELSE value

\* ------------------------------------------------------------- helpers
InRun == pc \in {"waiting", "communicate"}
Elapsed == now - t_0
Child(st, rc, out, err) ==
    [state |-> st, returncode |-> rc, stdout |-> out, stderr |-> err]
NoChild == Child("none", 0, "", << >>)
ChildLives(p) == p.state \in {"alive", "dying"}

\* ------------------------------------------------------------- Init
\* The objects after construction, wherever the scheduler task stands.
Constructed ==
    /\ cfg \in { c \in [interval : 1..MaxInterval, timeout : (-2)..MaxInterval] :
                   c.timeout <= c.interval }
    /\ now = 1
    /\ t_0 = 1
    /\ proc = NoChild
    /\ abandoned = 0
    /\ json_file \in {"missing", "ok"}
    /\ pending = << >>
    /\ result = None
    /\ finished_initial_run = FALSE
    /\ warnings = << >>
    /\ last_update_repos = {}
    /\ update_count = [ rc \in ExitCodes \cup {-SIGKILL} |-> 0 ]
    /\ last_duration = 0
    /\ duration_count = 0
    /\ pulling_g = {}
    /\ pulled_g = {}
    /\ removed_unreferenced = 0
    /\ fetch_status_c = << >>
    /\ host_warnings = << >>
    /\ last_update = 0
    /\ json_error = 0
    /\ objects_count = "unset"
    /\ stderr_in = << >>
    /\ parsed = None
    /\ call = None
    /\ response = None
    /\ site = "none"
    /\ io = None

\* The scheduler task about to start the first iteration of repeat.
Init ==
    /\ Constructed
    /\ pc = "loop"

\* ------------------------------------------------------------- actions
\* repeat starts an iteration; RpkiClient.run evaluates self.args, which raises.
RunConfigError ==
    /\ pc = "loop" /\ pending = << >>
    /\ \E files_ok \in BOOLEAN : args_raises(files_ok, cfg.timeout)
    /\ pc' = "dead"
    /\ t_0' = now
    /\ duration_count' = duration_count + 1
    /\ UNCHANGED << unitVars, cfg, now, proc, abandoned, json_file, pending, webVars, clientVars,
                    runMetrics, reconcileMetrics, fileMetrics >>

\* create_subprocess_exec raises OSError.
RunSpawnError ==
    /\ pc = "loop" /\ pending = << >>
    /\ ~args_raises(TRUE, cfg.timeout)
    /\ pc' = "dead"
    /\ t_0' = now
    /\ duration_count' = duration_count + 1
    /\ UNCHANGED << unitVars, cfg, now, proc, abandoned, json_file, pending, webVars, clientVars,
                    runMetrics, reconcileMetrics, fileMetrics >>

\* create_subprocess_exec succeeds; run awaits proc.wait().
RunSpawn ==
    /\ pc = "loop" /\ pending = << >>
    /\ ~args_raises(TRUE, cfg.timeout)
    /\ proc' = Child("alive", 0, "", << >>)
    /\ pc' = "waiting"
    /\ t_0' = now
    /\ UNCHANGED << unitVars, cfg, now, abandoned, json_file, pending, webVars, clientVars,
                    duration_count, runMetrics, reconcileMetrics, fileMetrics >>

\* A second passes while the scheduler task is suspended and nothing is due.
Tick ==
    /\ now < MaxTime
    /\ pending = << >>
    /\ pc \in {"waiting", "communicate", "sleeping"}
    /\ Elapsed < cfg.interval
    /\ pc = "waiting" /\ cfg.timeout > 0 => Elapsed < cfg.timeout
    /\ InRun => proc.state # "exited"
    /\ now' = now + 1
    /\ UNCHANGED << unitVars, cfg, pc, t_0, proc, abandoned, json_file, pending, webVars, clientVars,
                    duration_count, runMetrics, reconcileMetrics, fileMetrics >>

\* The child of the run in progress exits and leaves its result file behind.
\* A killed child exits with -SIGKILL.
ChildExit ==
    /\ InRun
    /\ ChildLives(proc)
    /\ \E j \in JsonStates : json_file' = j
    /\ \E o \in Outputs, rc \in ExitCodes :
          proc' = Child("exited",
                        IF proc.state = "dying" THEN -SIGKILL ELSE rc,
                        o.stdout, o.stderr)
    /\ UNCHANGED << unitVars, cfg, now, pc, t_0, abandoned, pending, webVars, clientVars,
                    duration_count, runMetrics, reconcileMetrics, fileMetrics >>

\* The child of a cancelled run exits; nobody reads what it returns.
AbandonedChildExit ==
    /\ abandoned > 0
    /\ abandoned' = abandoned - 1
    /\ \E j \in JsonStates : json_file' = j
    /\ UNCHANGED << unitVars, cfg, now, pc, t_0, proc, pending, webVars, clientVars,
                    duration_count, runMetrics, reconcileMetrics, fileMetrics >>

\* run: wait_for(proc.wait(), timeout) raises TimeoutError; proc.kill().
RunTimeoutKill ==
    /\ pc = "waiting"
    /\ cfg.timeout > 0
    /\ Elapsed >= cfg.timeout
    /\ proc.state = "alive"
    /\ proc' = [proc EXCEPT !.state = "dying"]
    /\ pc' = "communicate"
    /\ UNCHANGED << unitVars, cfg, now, t_0, abandoned, json_file, pending, webVars, clientVars,
                    duration_count, runMetrics, reconcileMetrics, fileMetrics >>

\* repeat: wait_for(func(), interval) cancels func and raises TimeoutError,
\* which repeat catches; the child of the cancelled run is left as it is.
RepeatTimeout ==
    /\ InRun
    /\ Elapsed >= cfg.interval
    /\ pc' = "loop"
    /\ duration_count' = duration_count + 1
    /\ abandoned' = IF ChildLives(proc) THEN abandoned + 1 ELSE abandoned
    /\ proc' = NoChild
    /\ UNCHANGED << unitVars, cfg, now, t_0, json_file, pending, webVars, clientVars,
                    runMetrics, reconcileMetrics, fileMetrics >>

\* OutputParser(stderr.decode("utf8")) for the texts a child leaves behind:
\* what update_warning_metrics reads from it.
OutputParser ==
    [ stderr \in { o.stderr : o \in Outputs } |->
        LET lines == Lines(stderr)
        IN  [ pulling |-> pulling(lines),
              pulled |-> pulled(lines),
              fetch_status |-> fetch_status(lines),
              statistics_by_host_raises |-> statistics_by_host_raises(lines),
              statistics_by_host |->
                  IF statistics_by_host_raises(lines) THEN << >>
                  ELSE statistics_by_host(lines) ] ]

\* update_warning_metrics up to the point where statistics_by_host is called:
\* removals, pulling and pulled series, fetch-status counters.
ReconcileRepositories(stderr, was_successful_run) ==
    LET new_pulling == OutputParser[stderr].pulling
        unreferenced == UnreferencedRepos(last_update_repos, new_pulling,
                                          was_successful_run)
    IN  /\ removed_unreferenced' = removed_unreferenced + Cardinality(unreferenced)
        /\ pulling_g' = PullingAfter(pulling_g, unreferenced, new_pulling)
        /\ pulled_g' = PulledAfter(pulled_g, pulling_g, unreferenced,
                                   OutputParser[stderr].pulled)
        /\ fetch_status_c' = FetchStatusAfter(fetch_status_c,
                                              OutputParser[stderr].fetch_status)

\* The child of the run has exited: run counts the run, reconciles the
\* diagnostics, schedules the result-file task and returns; call_client
\* stores the result.  repeat then sleeps for the rest of the interval.
\* (The error counter and the vanished-file gauges of lines 306-312 take
\* their values from line shapes that the streams above do not contain; the
\* OpenMetrics task only replaces the list of a collector.)
RunCompletes ==
    /\ InRun
    /\ proc.state = "exited"
    /\ LET p == proc
           new_warnings == OutputParser[p.stderr].statistics_by_host
       IN  /\ ~OutputParser[p.stderr].statistics_by_host_raises
           /\ update_count' = UpdateCountAfter(update_count, p.returncode)
           /\ last_duration' = Elapsed
           /\ ReconcileRepositories(p.stderr, p.returncode = 0)
           /\ host_warnings' = HostWarningsAfter(host_warnings, warnings, new_warnings)
           /\ warnings' = new_warnings
           /\ last_update_repos' = OutputParser[p.stderr].pulling
           /\ pending' = Append(pending, p.returncode)
           /\ result' = ExecutionResult(p.returncode, p.stdout, p.stderr, Elapsed)
    /\ finished_initial_run' = TRUE
    /\ duration_count' = duration_count + 1
    /\ pc' = "sleeping"
    /\ proc' = NoChild
    /\ UNCHANGED << unitVars, cfg, now, t_0, abandoned, json_file, fileMetrics >>

\* The same, with a warning whose path parse_host rejects: the ValueError
\* leaves update_warning_metrics, run, call_client and repeat, and ends the
\* process.
RunDiagnosticsRaise ==
    /\ InRun
    /\ proc.state = "exited"
    /\ LET p == proc
       IN  /\ OutputParser[p.stderr].statistics_by_host_raises
           /\ update_count' = UpdateCountAfter(update_count, p.returncode)
           /\ last_duration' = Elapsed
           /\ ReconcileRepositories(p.stderr, p.returncode = 0)
    /\ duration_count' = duration_count + 1
    /\ pc' = "dead"
    /\ proc' = NoChild
    /\ UNCHANGED << unitVars, cfg, now, t_0, abandoned, json_file, pending, webVars, clientVars,
                    host_warnings, fileMetrics >>

\* repeat: asyncio.sleep(interval - elapsed) is over.
RepeatWakes ==
    /\ pc = "sleeping"
    /\ pending = << >>
    /\ Elapsed >= cfg.interval
    /\ pc' = "loop"
    /\ UNCHANGED << unitVars, cfg, now, t_0, proc, abandoned, json_file, pending, webVars, clientVars,
                    duration_count, runMetrics, reconcileMetrics, fileMetrics >>

\* The task created by run: update_validated_objects_gauge(returncode).
update_validated_objects_gauge ==
    /\ pending # << >>
    /\ pc # "dead"
    /\ last_update' = LastUpdateAfter(last_update, Head(pending), json_file, now)
    /\ json_error' = JsonErrorAfter(json_error, json_file)
    /\ objects_count' = ObjectsCountAfter(objects_count, json_file)
    /\ pending' = Tail(pending)
    /\ UNCHANGED << unitVars, cfg, now, pc, t_0, proc, abandoned, json_file, webVars, clientVars,
                    duration_count, runMetrics, reconcileMetrics >>

Next ==
    \/ RunConfigError
    \/ RunSpawnError
    \/ RunSpawn
    \/ Tick
    \/ ChildExit
    \/ AbandonedChildExit
    \/ RunTimeoutKill
    \/ RepeatTimeout
    \/ RunCompletes
    \/ RunDiagnosticsRaise
    \/ RepeatWakes
    \/ update_validated_objects_gauge

Spec == Init /\ [][Next]_vars

\* ------------------------------------------------------------- parsing.py
\* The messages that start with "RFC 6487:".
RFC6487_MESSAGES == {MSG_DUPLICATE_SKI, MSG_UNCOVERED_IP, MSG_RFC6487_OTHER}

\* One row of the table of parse_maybe_warning_line: the messages its
\* pattern matches, the warning type, and whether the path is [^:]+.
LabelRule(messages, warning_type, path_without_colon) ==
    [messages |-> messages, warning_type |-> warning_type,
     path_without_colon |-> path_without_colon]

\* A table that tries the RFC 6487 catch-all before the specific rules.
LABEL_RULES_CATCH_ALL_FIRST ==
    << LabelRule({MSG_MISSING}, "missing_file", FALSE),
       LabelRule({MSG_OVERCLAIM}, "overclaiming", FALSE),
       LabelRule({MSG_REVOKED}, "ee_certificate_revoked", TRUE),
       LabelRule(RFC6487_MESSAGES, "rfc6487_unknown_error", FALSE),
       LabelRule({MSG_DUPLICATE_SKI}, "rfc6487_duplicate_ski", FALSE),
       LabelRule({MSG_UNCOVERED_IP}, "rfc6487_uncovered_ip", FALSE),
       LabelRule({MSG_NO_MFT}, "no_valid_mft_available", FALSE),
       LabelRule({MSG_MISSING_SIA}, "missing_sia", FALSE) >>

\* The table of parse_maybe_warning_line, in its order, for the messages of
\* the model.
LABEL_RULES ==
    << LabelRule({MSG_MISSING}, "missing_file", FALSE),
       LabelRule({MSG_OVERCLAIM}, "overclaiming", FALSE),
       LabelRule({MSG_REVOKED}, "ee_certificate_revoked", TRUE),
       LabelRule({MSG_DUPLICATE_SKI}, "rfc6487_duplicate_ski", FALSE),
       LabelRule({MSG_UNCOVERED_IP}, "rfc6487_uncovered_ip", FALSE),
       LabelRule(RFC6487_MESSAGES, "rfc6487_unknown_error", FALSE),
       LabelRule({MSG_NO_MFT}, "no_valid_mft_available", FALSE),
       LabelRule({MSG_MISSING_SIA}, "missing_sia", FALSE) >>

\* regex.match(line) for a row: a path of [^:]+ holds no second prefix
\* token and no URI; a path of .* may run up to any ": " of the text.
RuleMatches(rule, line) ==
    IF rule.path_without_colon
    THEN /\ line.prefix = 1
         /\ line.message \in rule.messages
         /\ \A i \in DOMAIN line.subject : line.subject[i] # "https:"
    ELSE /\ line.prefix >= 1
         /\ (line.message \in rule.messages \/ line.alt_message \in rule.messages)

\* match.group("path") for a row that matches.
RulePath(rule, line) ==
    LET subj == IF ~rule.path_without_colon /\ line.alt_message \in rule.messages
                THEN line.alt_subject ELSE line.subject
    IN  IF line.prefix = 1 THEN subj ELSE << "rpki-client: " >> \o subj

\* The loop over the table: the first row that matches yields and returns.
RECURSIVE FirstLabelRule(_, _)
FirstLabelRule(rules, line) ==
    IF rules = << >> THEN << >>
    ELSE IF RuleMatches(Head(rules), line)
    THEN << [warning_type |-> Head(rules).warning_type,
             uri |-> RulePath(Head(rules), line)] >>
    ELSE FirstLabelRule(Tail(rules), line)

\* parsing.parse_maybe_warning_line: the first rule that matches yields and
\* returns.
parsing_parse_maybe_warning_line(line) ==
    IF FirstLabelRule(LABEL_RULES, line) # << >>
    THEN [events |-> FirstLabelRule(LABEL_RULES, line), raises |-> "none"]
    ELSE IF Matches(line, MSG_UNSUPPORTED)
    THEN [events |-> ManifestObjectWarning(line, MSG_UNSUPPORTED, "unsupported_filetype"),
          raises |-> "none"]
    ELSE IF Matches(line, MSG_BAD_INTERVAL)
    THEN [events |-> LabelWarning(line, MSG_BAD_INTERVAL, "bad_manifest_update_interval"),
          raises |-> "none"]
    ELSE IF Matches(line, MSG_EXPIRED)
    THEN [events |-> LabelWarning(line, MSG_EXPIRED, "expired_manifest"), raises |-> "none"]
    ELSE IF Matches(line, MSG_EXPIRED_BAD)
    THEN [events |-> << >>, raises |-> "ValueError"]
    ELSE IF Matches(line, MSG_NOT_YET_VALID)
    THEN [events |-> LabelWarning(line, MSG_NOT_YET_VALID, "not_yet_valid_manifest"),
          raises |-> "none"]
    ELSE [events |-> ManifestObjectWarning(line, MSG_DIGEST, "bad_message_digest"),
          raises |-> "none"]

\* parsing.parse_fetch_status: the first rule that matches yields and
\* returns.  SYNC_BAD_MESSAGE_DIGEST ends with "bad message digest" and is
\* not anchored at the end, so it matches the text of MSG_DIGEST as well.
parse_fetch_status(line) ==
    IF line.prefix >= 1 /\ line.message = MSG_TLS
    THEN FetchStatus(line, MSG_TLS, "rrdp_tls_certificate_verification_failed")
    ELSE IF Matches(line, MSG_DIGEST)
    THEN FetchStatus(line, MSG_DIGEST, "bad_message_digest")
    ELSE IF Matches(line, MSG_NOT_MODIFIED)
    THEN FetchStatus(line, MSG_NOT_MODIFIED, "rrdp_notification_not_modified")
    ELSE IF Matches(line, MSG_SNAPSHOT)
    THEN FetchStatus(line, MSG_SNAPSHOT, "rrdp_snapshot")
    ELSE FetchStatusCounted(line)

\* parsing.parse_rpki_client_error
parse_rpki_client_error(line) ==
    IF line.prefix >= 1 /\ line.subject = << >> /\ line.message = MSG_NOT_ALL_FILES
    THEN << [warning_type |-> "not_all_files_processed"] >>
    ELSE << >>

\* ------------------------------------------------------------- functions
\* What a caller reads from OutputParser(stderr): the properties that
\* update_warning_metrics uses, each read once.
OutputParserResult(stderr) ==
    LET lines == Lines(stderr)
        run == WarningsRun(lines)
    IN  [ pulling |-> pulling(lines),
          pulled |-> pulled(lines),
          fetch_status |-> fetch_status(lines),
          warnings |-> run.events,
          parse_errors |-> run.parse_errors,
          raises |-> run.raises,
          statistics_by_host_raises |-> statistics_by_host_raises(lines),
          statistics_by_host |->
              IF statistics_by_host_raises(lines) THEN << >>
              ELSE statistics_by_host(lines) ]

\* The validator writes one more line to its stderr.
ParserFeed ==
    /\ parsed = None
    /\ call = None
    /\ Len(stderr_in) < MaxLines
    /\ \E l \in DiagLines : stderr_in' = Append(stderr_in, l)
    /\ UNCHANGED << mainVars, response, site, io, parsed, call >>

\* OutputParser(stderr) is built and read.
ParserParse ==
    /\ parsed = None
    /\ call = None
    /\ parsed' = OutputParserResult(stderr_in)
    /\ UNCHANGED << mainVars, response, site, io, stderr_in, call >>

\* The summaries handed to missing_labels.
WarningSummaries ==
    [ warning_type : {"missing_file", "overclaiming"},
      hostname : {"hostx.example", "hosty.example"},
      count : 1..MaxCount ]

SummaryLists ==
    {<< >>} \cup { << a >> : a \in WarningSummaries }
            \cup { << a, b >> : a \in WarningSummaries, b \in WarningSummaries }

\* missing_labels(lhs, rhs) is called.
CallMissingLabels ==
    /\ call = None /\ parsed = None /\ stderr_in = << >>
    /\ \E lhs \in SummaryLists, rhs \in SummaryLists :
          call' = [ fn |-> "missing_labels", lhs |-> lhs, rhs |-> rhs,
                    out |-> missing_labels(lhs, rhs) ]
    /\ UNCHANGED << mainVars, response, site, io, stderr_in, parsed >>

\* The paths handed to parse_host: the shapes of its docstring and of the
\* validator's cache directory, a path without "/" and a path that ends
\* after the hash.
HostPaths ==
    { PathX1, PathX2, PathY, PathDotRsync, PathDotRrdp, PathNoSlash,
      << "rrdp", "73885635" >> }

\* parse_host(incomplete_uri) is called.
CallParseHost ==
    /\ call = None /\ parsed = None /\ stderr_in = << >>
    /\ \E path \in HostPaths :
          call' = [ fn |-> "parse_host", path |-> path,
                    raises |-> parse_host_raises(path),
                    out |-> IF parse_host_raises(path) THEN ""
                            ELSE parse_host(path) ]
    /\ UNCHANGED << mainVars, response, site, io, stderr_in, parsed >>

\* The configurations and the state of the file system a run can meet:
\* Configuration accepts any timeout up to the interval, and a file that
\* was there at startup can be gone when a run starts.
Configurations ==
    [ rpki_client_is_file : BOOLEAN,
      rsync_command : {"none", "file", "missing"},
      cache_dir_is_dir : BOOLEAN,
      output_dir_is_dir : BOOLEAN,
      timeout : (-2)..1,
      deadline : (-1)..MaxDeadline,
      additional_opts : {<< >>, << "-n", "-c" >>},
      trust_anchor_locators : {<< "a.tal" >>, << "a.tal", "b.tal" >>,
                               << "b.tal", "a.tal" >>} ]

\* os.environ of the wrapper: values are numbers, 0 for anything inherited.
Environs == { [ k \in {"PATH"} |-> 0 ], [ k \in {"PATH", "DEADLINE"} |-> 0 ] }

\* RpkiClient.run up to and including create_subprocess_exec.
CallRun ==
    /\ call = None /\ parsed = None /\ stderr_in = << >>
    /\ \E c \in Configurations, environ \in Environs, t \in 1..MaxTime :
          LET raises == args_raises(files_exist(c), c.timeout)
          IN  call' = [ fn |-> "run", config |-> c, environ |-> environ, t |-> t,
                        raises |-> raises,
                        spawned |-> ~raises,
                        argv |-> IF raises THEN << >> ELSE args(c),
                        env |-> IF raises THEN << >> ELSE child_env(c, environ, t) ]
    /\ UNCHANGED << mainVars, response, site, io, stderr_in, parsed >>

FunctionsInit ==
    /\ Init
    /\ cfg = [interval |-> 1, timeout |-> 0]
    /\ json_file = "missing"

FunctionsNext ==
    \/ ParserFeed
    \/ ParserParse
    \/ CallMissingLabels
    \/ CallParseHost
    \/ CallRun

FunctionsSpec == FunctionsInit /\ [][FunctionsNext]_vars

\* ------------------------------------------------------------- web server
STATUS_INITIAL == "initial validation run has not finished yet."
STATUS_NOT_AVAILABLE == "validated objects JSON file is not available at the moment."

\* web.FileResponse(path)
FileResponse == [type |-> "FileResponse", status |-> "", output |-> None]

\* web.HTTPServiceUnavailable with the JSON body of the handler.
HTTPServiceUnavailable(status, output) ==
    [type |-> "HTTPServiceUnavailable", status |-> status, output |-> output]

\* A server whose loop is held for the length of the jitter delay and of
\* every run.
SuspendedBetweenRuns(p) == p = "sleeping"

\* RpkiClientWeb.run and what it awaits: the positions at which the scheduler
\* is suspended in asyncio.sleep, proc.wait or proc.communicate, and the
\* event loop runs the other tasks.
Suspended(p) == p \in {"jitter", "waiting", "communicate", "sleeping"}

\* RpkiClientWeb.run up to the scheduling loop: the runner is set up, the
\* task of site.start() is created, and the jitter delay is awaited when one
\* is configured.
run_setup ==
    /\ pc = "setup"
    /\ site' = "starting"
    /\ \E jitter \in 0..MaxJitter : pc' = IF jitter > 0 THEN "jitter" ELSE "loop"
    /\ UNCHANGED << mainVarsExceptPc, stderr_in, parsed, call, response, io >>

\* asyncio.sleep(jitter_delay) is over: gather starts repeat.
jitter_over ==
    /\ pc = "jitter"
    /\ pc' = "loop"
    /\ UNCHANGED << mainVarsExceptPc, unitVars >>

\* The task of site.start() has bound the socket: the server listens.
site_start ==
    /\ site = "starting"
    /\ Suspended(pc)
    /\ site' = "listening"
    /\ UNCHANGED << mainVars, stderr_in, parsed, call, response, io >>

\* RpkiClientWeb.validated_objects: GET /objects/validated, served by the
\* event loop while the scheduler task is suspended.
validated_objects ==
    /\ site = "listening"
    /\ Suspended(pc)
    /\ response' =
          IF json_file # "missing" THEN FileResponse
          ELSE HTTPServiceUnavailable(
                   IF finished_initial_run THEN STATUS_NOT_AVAILABLE
                   ELSE STATUS_INITIAL,
                   result)
    /\ UNCHANGED << mainVars, stderr_in, parsed, call, site, io >>

\* The positions at which the event loop runs request handlers: those at
\* which the scheduler task is suspended, and the iterations of the loop
\* between the failure of the repeat task and the return of asyncio.run,
\* which gather and the main task need to pass the exception on.
HandlersRun(p) == Suspended(p) \/ p = "dead"

\* aio.web.server_stats: GET /metrics, the text of the registry; of the
\* registry the answer keeps the series that update_warning_metrics writes.
server_stats ==
    /\ site = "listening"
    /\ HandlersRun(pc)
    /\ response' = [type |-> "metrics", status |-> "",
                    output |-> << pulling_g, pulled_g, fetch_status_c,
                                  host_warnings >>]
    /\ UNCHANGED << mainVars, stderr_in, parsed, call, site, io >>

\* The server with one configuration: a run every two seconds, killed
\* after one.
WebInit ==
    /\ Constructed
    /\ pc = "setup"
    /\ cfg = [interval |-> 2, timeout |-> 1]

WebNext ==
    \/ run_setup
    \/ jitter_over
    \/ site_start
    \/ Next
    \/ validated_objects
    \/ server_stats

WebSpec == WebInit /\ [][WebNext]_vars

\* ------------------------------------------------------------- child pipes
\* RpkiClient.run with no timeout configured, seen from the pipes of the
\* child: create_subprocess_exec(stdout=PIPE, stderr=PIPE,
\* limit=OUTPUT_BUFFER_SIZE), then proc.wait(), then proc.communicate().
\* Output is counted in chunks: a pipe of the operating system holds
\* PipeSize of them, and the StreamReader of a pipe is fed by the event loop
\* until it holds more than twice its limit, BufferLimit.
Streams == {"stdout", "stderr"}
pipeUnchanged == << mainVars, stderr_in, parsed, call, response, site >>

\* A reader that is fed whatever it holds.
ReaderAlwaysAccepts(buffered) == TRUE

\* StreamReader.feed_data pauses the transport once the buffer holds more
\* than 2 * limit; StreamReader.read resumes it.
ReaderAccepts(buffered) == buffered <= 2 * BufferLimit

\* The most a child writes to one stream: one chunk more than its pipe and a
\* paused StreamReader hold together.
MaxOutput == PipeSize + 2 * BufferLimit + 2

\* create_subprocess_exec: the child starts with the output it is going to
\* write; run awaits proc.wait().
pipe_spawn ==
    /\ io = None
    /\ \E out \in [Streams -> 0..MaxOutput] :
          io' = [left |-> out,
                 pipe |-> [s \in Streams |-> 0],
                 buffer |-> [s \in Streams |-> 0],
                 read |-> [s \in Streams |-> 0],
                 child |-> "running", runner |-> "wait"]
    /\ UNCHANGED pipeUnchanged

\* The child writes a chunk to a pipe that has room for it.
child_write ==
    /\ io # None
    /\ io.child = "running"
    /\ \E s \in Streams :
          /\ io.left[s] > 0
          /\ io.pipe[s] < PipeSize
          /\ io' = [io EXCEPT !.left[s] = @ - 1, !.pipe[s] = @ + 1]
    /\ UNCHANGED pipeUnchanged

\* The child has written all its output and exits.
child_exit ==
    /\ io # None
    /\ io.child = "running"
    /\ \A s \in Streams : io.left[s] = 0
    /\ io' = [io EXCEPT !.child = "exited"]
    /\ UNCHANGED pipeUnchanged

\* The event loop moves a chunk from a pipe to its StreamReader, while the
\* runner is suspended in proc.wait() or in proc.communicate().
feed_data ==
    /\ io # None
    /\ io.runner # "returned"
    /\ \E s \in Streams :
          /\ io.pipe[s] > 0
          /\ ReaderAccepts(io.buffer[s])
          /\ io' = [io EXCEPT !.pipe[s] = @ - 1, !.buffer[s] = @ + 1]
    /\ UNCHANGED pipeUnchanged

\* proc.wait() returns: the child has exited.  run awaits proc.communicate().
wait_returns ==
    /\ io # None
    /\ io.runner = "wait"
    /\ io.child = "exited"
    /\ io' = [io EXCEPT !.runner = "communicate"]
    /\ UNCHANGED pipeUnchanged

\* proc.communicate(): stream.read() takes what a StreamReader holds.
communicate_read ==
    /\ io # None
    /\ io.runner = "communicate"
    /\ \E s \in Streams :
          /\ io.buffer[s] > 0
          /\ io' = [io EXCEPT !.read[s] = @ + io.buffer[s], !.buffer[s] = 0]
    /\ UNCHANGED pipeUnchanged

\* proc.communicate() returns at the end of both streams: run goes on to
\* its result.
communicate_returns ==
    /\ io # None
    /\ io.runner = "communicate"
    /\ \A s \in Streams : io.pipe[s] = 0 /\ io.buffer[s] = 0
    /\ io' = [io EXCEPT !.runner = "returned"]
    /\ UNCHANGED pipeUnchanged

PipeInit ==
    /\ Init
    /\ cfg = [interval |-> 1, timeout |-> 0]
    /\ json_file = "missing"

PipeNext ==
    \/ pipe_spawn
    \/ child_write
    \/ child_exit
    \/ feed_data
    \/ wait_returns
    \/ communicate_read
    \/ communicate_returns

PipeSpec == PipeInit /\ [][PipeNext]_vars

\* ------------------------------------------------------------- properties
RunEnds == InRun /\ ~InRun'
RunReturns == InRun /\ pc' = "sleeping"
TaskRuns == pending # << >> /\ pending' = Tail(pending)
LiveChildren == abandoned + (IF ChildLives(proc) THEN 1 ELSE 0)

\* The number of warnings of the stream that carry the label.
LabelCount(stderr, label) ==
    LET ws == parse_warnings(Lines(stderr))
    IN  Cardinality({ i \in DOMAIN ws :
                        << ws[i].warning_type, parse_host(ws[i].uri) >> = label })

\* The sum of the magnitudes of the fetch-status events of the stream for a key.
RECURSIVE FetchSum(_, _)
FetchSum(events, k) ==
    IF events = << >> THEN 0
    ELSE (IF << Head(events).uri, Head(events).type >> = k THEN Head(events).count ELSE 0)
         + FetchSum(Tail(events), k)

\* C1: at any moment at most one validator child started by the scheduler is
\* alive, also when a run lasts longer than the interval.
C1_AtMostOneChildAlive == LiveChildren <= 1

\* C2: an exception raised inside one scheduler tick does not terminate the
\* scheduling loop.
C2_LoopSurvivesFailedTick == pc # "dead"

\* C3: a run with a non-zero exit code leaves last_update_repos unchanged.
C3_FailedRunKeepsPulling ==
    [][ (RunReturns /\ proc.returncode # 0)
            => last_update_repos' = last_update_repos ]_vars

\* C4: a pulling or pulled series is removed, and the removed-unreferenced
\* counter incremented once for it, only for a repository of the previous
\* pulling set that the current run does not pull, and only when the run
\* exited with code 0; a run with a non-zero exit code removes nothing.
C4_RemovalOnlyUnreferencedAfterSuccess ==
    [][ LET gone == (pulling_g \ pulling_g') \cup (pulled_g \ pulled_g')
        IN  /\ \A r \in gone :
                  /\ RunEnds /\ proc.state = "exited" /\ proc.returncode = 0
                  /\ r \in last_update_repos
                  /\ result # None
                  /\ r \in pulling(Lines(result.stderr))
                  /\ r \notin pulling(Lines(proc.stderr))
            /\ removed_unreferenced' - removed_unreferenced
                  = Cardinality(pulling_g \ pulling_g')
            /\ (RunEnds /\ proc.returncode # 0) =>
                  /\ pulling_g \subseteq pulling_g'
                  /\ pulled_g \subseteq pulled_g'
                  /\ removed_unreferenced' = removed_unreferenced ]_vars

C4_Witness ==
    /\ removed_unreferenced > 0
    /\ result # None
    /\ result.returncode = 0
    /\ RepoB \notin pulling_g
    /\ RepoA \in pulling_g

\* C5: a warning label is zeroed, never deleted: every label that has a
\* host-warning series keeps it, and its value is the label's count in the
\* most recent completed run, 0 when it does not occur there.
C5_SeriesMatchLastRun ==
    /\ \A l \in DOMAIN host_warnings :
          host_warnings[l] = IF result = None THEN 0
                             ELSE LabelCount(result.stderr, l)
    /\ result # None =>
          \A l \in Labels(statistics_by_host(Lines(result.stderr))) :
              l \in DOMAIN host_warnings

\* C5: warning labels are zeroed, never deleted: the state above holds at
\* all times and no step removes a label from the host-warning gauge.
C5_WarningLabelsZeroedNotDeleted ==
    /\ []C5_SeriesMatchLastRun
    /\ [][DOMAIN host_warnings \subseteq DOMAIN host_warnings']_vars

C5_Witness ==
    /\ \E l \in DOMAIN host_warnings : host_warnings[l] = 0
    /\ \E l \in DOMAIN host_warnings : host_warnings[l] = 1
    /\ update_count[0] + update_count[1] + update_count[-SIGKILL] = 2

\* C6: when a positive timeout elapses with the child alive the runner kills
\* it, keeps waiting until it has exited and then returns the ExecutionResult
\* of the run, which is counted.
C6_KilledRunIsAwaitedAndReturned ==
    [][ /\ (pc = "waiting" /\ cfg.timeout > 0 /\ Elapsed >= cfg.timeout
              /\ proc.state = "alive" /\ pc' # "waiting")
            => (pc' = "communicate" /\ proc'.state = "dying")
        /\ (pc = "communicate" /\ pc' # "communicate")
            => /\ proc.state = "exited"
               /\ pc' = "sleeping"
               /\ result' = ExecutionResult(proc.returncode, proc.stdout,
                                            proc.stderr, Elapsed)
               /\ update_count'[proc.returncode]
                     = update_count[proc.returncode] + 1 ]_vars

\* C7: with a timeout of 0 or below the runner never kills the child and
\* waits for its exit however long that takes; a kill is sent only when the
\* timeout is positive and the child is alive after that many seconds.
C7_KillOnlyAfterPositiveTimeout ==
    [][ /\ (proc.state = "alive" /\ proc'.state = "dying")
            => (cfg.timeout > 0 /\ Elapsed >= cfg.timeout)
        /\ (cfg.timeout <= 0 /\ pc = "waiting" /\ pc' # "waiting")
            => proc.state = "exited" ]_vars

\* C8: a run in progress when its interval elapses is not cancelled: it ends
\* only by returning its ExecutionResult, which becomes the last result.
C8_RunSurvivesInterval ==
    [][ (InRun /\ Elapsed >= cfg.interval /\ ~InRun')
            => /\ proc.state = "exited"
               /\ result' = ExecutionResult(proc.returncode, proc.stdout,
                                            proc.stderr, Elapsed) ]_vars

\* C9: a run that completes, whatever its exit code, increments the update
\* counter of that exit code by one and no other, and its diagnostics are
\* processed once: every fetch-status counter grows by the stream's total
\* for its key and the stored warnings and pulling set are the stream's.
C9_CompletedRunCountedOnce ==
    [][ RunReturns =>
          LET lines == Lines(proc.stderr)
          IN  /\ \A rc \in DOMAIN update_count :
                    update_count'[rc] = update_count[rc]
                        + (IF rc = proc.returncode THEN 1 ELSE 0)
              /\ \A k \in DOMAIN fetch_status_c' :
                    fetch_status_c'[k]
                        = (IF k \in DOMAIN fetch_status_c THEN fetch_status_c[k] ELSE 0)
                          + FetchSum(fetch_status(lines), k)
              /\ DOMAIN fetch_status_c \subseteq DOMAIN fetch_status_c'
              /\ \A l \in Labels(warnings') :
                    SummaryCount(warnings', l) = LabelCount(proc.stderr, l)
              /\ last_update_repos' = pulling(lines)
              /\ result'.returncode = proc.returncode ]_vars

C9_Witness ==
    /\ update_count[-SIGKILL] = 1
    /\ update_count[1] = 1
    /\ \E k \in DOMAIN fetch_status_c : fetch_status_c[k] = 2

\* C10 as stated: the result-file task of a run that exited with code 0 sets
\* the last-successful-update timestamp, that of any other run leaves it.
C10_ExitZeroSetsLastUpdate ==
    [][ TaskRuns => IF Head(pending) = 0
                    THEN last_update' = now
                    ELSE last_update' = last_update ]_vars

\* C10 as amended: the timestamp is set exactly by the result-file task of a
\* run that exited with code 0 and whose JSON result file is present and
\* parses with its metadata; every other step leaves it unchanged.
C10_LastUpdateOnlyAfterGoodResultFile ==
    [][ IF TaskRuns /\ Head(pending) = 0 /\ json_file = "ok"
        THEN last_update' = now
        ELSE last_update' = last_update ]_vars

C10_Witness ==
    /\ result # None
    /\ result.returncode = 0
    /\ pending = << >>
    /\ pc = "sleeping"
    /\ json_file # "ok"
    /\ last_update > 0
    /\ last_update < t_0

\* The token "rpki-client: " occurs in the path or URI.
ContainsToken(uri) ==
    \E i \in DOMAIN uri :
        uri[i] \in {"rpki-client: ",
                    "notification.xml: pulling from networkrpki-client: https:"}

\* The stream without the lines in which the token occurs twice.
WithoutIntertwined(stderr) == SelectSeq(stderr, LAMBDA l : l.tokens < 2)

\* C11: a line in which the prefix token occurs twice adds no warning, no
\* fetch status and no pulling or pulled repository (the parser's results
\* are those of the stream without such lines), and no URI that the parser
\* emits contains the token.
C11_IntertwinedLinesAddNothing ==
    parsed # None =>
        /\ parsed = OutputParserResult(WithoutIntertwined(stderr_in))
        /\ \A u \in parsed.pulling \cup parsed.pulled : ~ContainsToken(u)
        /\ \A e \in Range(parsed.fetch_status) \cup Range(parsed.warnings) :
              ~ContainsToken(e.uri)

C11_Witness ==
    /\ parsed # None
    /\ LineJoined \in Range(stderr_in)
    /\ Line(2, RepoB, MSG_SNAPSHOT) \in Range(stderr_in)
    /\ parsed.pulled = {RepoA}

\* The lines of the stream whose classification ends with an exception.
FailingLines(lines) ==
    SelectSeq(lines, LAMBDA l : parse_maybe_warning_line(l).raises # "none")

\* C12: a line whose classification fails yields no event and is counted as
\* one parse error, no exception leaves the iteration over the warnings, and
\* the other lines are classified as they are without the failing line.
C12_ParseErrorsAreContained ==
    parsed # None =>
        LET lines == Lines(stderr_in)
            good == SelectSeq(lines,
                        LAMBDA l : parse_maybe_warning_line(l).raises = "none")
        IN  /\ ~parsed.raises
            /\ parsed.parse_errors = Len(FailingLines(lines))
            /\ parsed.warnings = WarningsRun(good).events
            /\ parsed.fetch_status = fetch_status(lines)

\* C13: classifying one line yields at most one event in total over the
\* warning rules, the fetch-status rules and the validator-error rules, for
\* the rules of outputparser.py and for those of parsing.py.
C13_AtMostOneEventPerLine ==
    parsed # None =>
        \A l \in Range(Lines(stderr_in)) :
            /\ Len(parse_maybe_warning_line(l).events)
                 + Len(fetch_status_line(l)) <= 1
            /\ Len(parsing_parse_maybe_warning_line(l).events)
                 + Len(parse_fetch_status(l))
                 + Len(parse_rpki_client_error(l)) <= 1

\* C14: missing_labels(previous, current) is exactly the set of
\* (warning_type, hostname) keys that occur in previous and not in current,
\* whatever the counts are; missing_labels(A, A) is empty.
C14_MissingLabelsIsKeyDifference ==
    (call # None /\ call.fn = "missing_labels") =>
        /\ \A t \in {"missing_file", "overclaiming"},
              h \in {"hostx.example", "hosty.example"} :
                << t, h >> \in call.out <=>
                    /\ \E i \in DOMAIN call.lhs :
                          call.lhs[i].warning_type = t /\ call.lhs[i].hostname = h
                    /\ ~ \E j \in DOMAIN call.rhs :
                          call.rhs[j].warning_type = t /\ call.rhs[j].hostname = h
        /\ \A k \in call.out : k \in {"missing_file", "overclaiming"}
                                        \X {"hostx.example", "hosty.example"}
        /\ call.lhs = call.rhs => call.out = {}

\* A key with different counts on the two sides, next to a missing one.
C14_Witness ==
    /\ call # None /\ call.fn = "missing_labels"
    /\ Len(call.lhs) = 2 /\ Len(call.rhs) = 1
    /\ call.lhs[1].warning_type = call.rhs[1].warning_type
    /\ call.lhs[1].hostname = call.rhs[1].hostname
    /\ call.lhs[1].count # call.rhs[1].count
    /\ call.out = { << call.lhs[2].warning_type, call.lhs[2].hostname >> }

\* C15: statistics_by_host returns one WarningSummary per distinct
\* (warning_type, host) pair among the warnings, with the number of warnings
\* that have the pair as its count: no two summaries share a key, every
\* warning is counted, and the counts add up to the number of warnings.
C15_OneSummaryPerTypeAndHost ==
    (parsed # None /\ ~parsed.statistics_by_host_raises) =>
        LET sums == parsed.statistics_by_host
            ws == parsed.warnings
            Key(w) == << w.warning_type, parse_host(w.uri) >>
            With(k) == { i \in DOMAIN ws : Key(ws[i]) = k }
            RECURSIVE Total(_)
            Total(seq) == IF seq = << >> THEN 0
                          ELSE Head(seq).count + Total(Tail(seq))
        IN  /\ \A i, j \in DOMAIN sums :
                  (sums[i].warning_type = sums[j].warning_type
                      /\ sums[i].hostname = sums[j].hostname) => i = j
            /\ \A i \in DOMAIN sums :
                  /\ sums[i].count = Cardinality(With(<< sums[i].warning_type,
                                                         sums[i].hostname >>))
                  /\ sums[i].count >= 1
            /\ \A i \in DOMAIN ws : Key(ws[i]) \in Labels(sums)
            /\ Total(sums) = Len(ws)

C15_Witness ==
    /\ parsed # None /\ ~parsed.statistics_by_host_raises
    /\ Len(parsed.warnings) = 3
    /\ Len(parsed.statistics_by_host) = 2
    /\ \E i \in DOMAIN parsed.statistics_by_host :
          /\ parsed.statistics_by_host[i].count = 2
          /\ parsed.statistics_by_host[i].hostname = "hostx.example"
    /\ PathX2 \in { w.uri : w \in Range(parsed.warnings) }

\* C16: parse_host returns the host segment of host/..., rsync/host/...,
\* .rsync/host/..., rrdp/<hash>/host/... and .rrdp/<hash>/host/...
C16_ParseHostStripsEveryPrefix ==
    (call # None /\ call.fn = "parse_host") =>
        LET path == call.path
        IN  /\ (Len(path) >= 3 /\ path[1] \in {"rrdp", ".rrdp"})
                  => (~call.raises /\ call.out = path[3])
            /\ (Len(path) >= 2 /\ path[1] \in {"rsync", ".rsync"})
                  => (~call.raises /\ call.out = path[2])
            /\ (Len(path) >= 2 /\ path[1] \notin {"rsync", ".rsync", "rrdp", ".rrdp"})
                  => (~call.raises /\ call.out = path[1])

\* C17: the argument vector of the child is exactly -v, -j, -d, the cache
\* directory, the extra options, -e and the rsync helper if one is
\* configured, -t and the locator for each trust anchor in their order, and
\* the output directory last.
C17_ArgumentVector ==
    (call # None /\ call.fn = "run" /\ call.spawned) =>
        LET c == call.config
        IN  call.argv =
                << "-v", "-j", "-d", "cache_dir" >>
                \o c.additional_opts
                \o (IF c.rsync_command = "file" THEN << "-e", "rsync_command" >>
                    ELSE << >>)
                \o tal_args(c.trust_anchor_locators)
                \o << "output_dir" >>

\* C18: if the validator path is not an existing file, the rsync helper is
\* set and not an existing file, the cache or output directory does not
\* exist, or the timeout is below -1, the run fails with a configuration
\* error and no child is spawned; otherwise the child is spawned.
C18_ConfigurationErrorSpawnsNothing ==
    (call # None /\ call.fn = "run") =>
        LET c == call.config
            invalid == \/ ~c.rpki_client_is_file
                       \/ c.rsync_command = "missing"
                       \/ ~c.cache_dir_is_dir
                       \/ ~c.output_dir_is_dir
                       \/ c.timeout < MIN_TIMEOUT
        IN  /\ invalid => (call.raises /\ ~call.spawned /\ call.argv = << >>)
            /\ ~invalid => (~call.raises /\ call.spawned)

C18_Witness ==
    /\ call # None /\ call.fn = "run"
    /\ call.config.timeout < MIN_TIMEOUT
    /\ files_exist(call.config)
    /\ call.raises /\ ~call.spawned

\* C19: the environment of the child has a DEADLINE variable if and only
\* if a positive deadline is configured, whatever the environment of the
\* wrapper holds; its value is the start time plus the deadline.
C19_DeadlineOnlyWhenConfigured ==
    (call # None /\ call.fn = "run" /\ call.spawned) =>
        /\ ("DEADLINE" \in DOMAIN call.env) <=> (call.config.deadline > 0)
        /\ ("DEADLINE" \in DOMAIN call.env)
              => call.env["DEADLINE"] = call.t + call.config.deadline

\* C20: a request for the validated-objects file made before the first run
\* has completed is answered with the "initial validation run has not
\* finished yet" service-unavailable condition, which is not the answer
\* given when the file is missing after a run has completed.
C20_NotYetAvailableBeforeFirstRun ==
    [][ response' # response =>
          /\ result = None =>
                response' = HTTPServiceUnavailable(STATUS_INITIAL, None)
          /\ (result # None /\ json_file = "missing") =>
                (/\ response'.type = "HTTPServiceUnavailable"
                 /\ response'.status # STATUS_INITIAL) ]_vars

\* C21: the task of the HTTP listener is created before the jitter delay
\* and before the first run; the listener comes up, and once up answers a
\* request, while the scheduler is in the jitter sleep or in a run, without
\* waiting for the run to complete.
C21_ListenerDoesNotWaitForRun ==
    /\ (pc = "jitter" \/ proc.state # "none" \/ result # None) => site # "none"
    /\ (site = "starting" /\ (pc = "jitter" \/ InRun)) => ENABLED site_start
    /\ (site = "listening" /\ (pc = "jitter" \/ InRun)) => ENABLED validated_objects

\* A request was answered while the first run was in progress.
C21_Witness ==
    /\ site = "listening"
    /\ InRun /\ proc.state = "alive"
    /\ result = None
    /\ response # None

C23_ChildNeverBlockedOnFullPipe ==
    (io # None /\ io.runner # "returned") => ENABLED PipeNext

C25_ScrapeSeesCompleteReconciliation ==
    ENABLED server_stats => last_update_repos \subseteq pulling_g

\* C26: in a stream that was parsed, every 'mft not yet valid' line yields
\* exactly one not_yet_valid_manifest warning with the path of that line, and
\* every 'bad update interval' line exactly one
\* bad_manifest_update_interval warning with the path of that line; no
\* exception ends the classification of such a line.
C26_ManifestTimingWarnings ==
    parsed # None =>
        \A l \in Range(Lines(stderr_in)) :
            LET one == parse_maybe_warning_line(l)
                of_type(t) == SelectSeq(one.events, LAMBDA e : e.warning_type = t)
            IN  /\ Matches(l, MSG_NOT_YET_VALID) =>
                      /\ one.raises = "none"
                      /\ of_type("not_yet_valid_manifest") =
                             << [warning_type |-> "not_yet_valid_manifest",
                                 uri |-> Capture(l, MSG_NOT_YET_VALID)] >>
                /\ Matches(l, MSG_BAD_INTERVAL) =>
                      /\ one.raises = "none"
                      /\ of_type("bad_manifest_update_interval") =
                             << [warning_type |-> "bad_manifest_update_interval",
                                 uri |-> Capture(l, MSG_BAD_INTERVAL)] >>

\* C27: while the scheduler sleeps after a run that exited with 0, every
\* repository with a pulling or a pulled series is one the run started
\* pulling or loaded.
C27_NoSeriesOfOtherRepositories ==
    (pc = "sleeping" /\ result # None /\ result.returncode = 0) =>
        LET lines == Lines(result.stderr)
        IN  (pulling_g \cup pulled_g) \subseteq (pulling(lines) \cup pulled(lines))

\* C28: whatever the child wrote to its stderr, once it has exited the run
\* can return its ExecutionResult: update_warning_metrics returns normally.
C28_DiagnosticsNeverRaise ==
    (InRun /\ proc.state = "exited") =>
        /\ ~statistics_by_host_raises(Lines(proc.stderr))
        /\ ENABLED RunCompletes

\* C29: every fetch-status event read from a stream has a count that is a
\* natural number, with the rules of outputparser.py and with those of
\* parsing.py.
C29_FetchStatusCountIsNatural ==
    parsed # None =>
        /\ \A e \in Range(parsed.fetch_status) : e.count \in Nat
        /\ \A l \in Range(Lines(stderr_in)) :
              \A e \in Range(parse_fetch_status(l)) : e.count \in Nat

\* C30: in every step of the server, finished_initial_run is set exactly
\* when a result is stored, neither is ever unset, and the stored result
\* changes only when a run returns, to the exit code, the output and the
\* duration of that run.
C30_ResultOfLastCompletedRun ==
    [][ /\ finished_initial_run <=> result # None
        /\ finished_initial_run' <=> result' # None
        /\ finished_initial_run => finished_initial_run'
        /\ result # None => result' # None
        /\ (result' # result \/ (InRun /\ pc' = "sleeping")) =>
              /\ InRun /\ proc.state = "exited"
              /\ result' = [returncode |-> proc.returncode, stdout |-> proc.stdout,
                            stderr |-> proc.stderr, duration |-> now - t_0] ]_vars

\* The result of a second run has replaced that of the first.
C30_Witness ==
    /\ pc = "sleeping"
    /\ finished_initial_run
    /\ result # None
    /\ update_count[0] + update_count[1] + update_count[-SIGKILL] >= 2

====
